---- MODULE Spec2Model ----
(***************************************************************************)
(* A model of the BitCodeFixer extension (src/src/extension.ts): the      *)
(* response extractor, the single-file and batch fix flows, and the AI    *)
(* commit flow.                                                            *)
(*                                                                         *)
(* Text is a sequence of characters.  A character is one of the strings   *)
(* below; a language word ("ts", "typescript", ...) is kept as one atomic *)
(* character, which is exact for the extractor's regular expression since *)
(* the words hold no backtick, newline or blank.                           *)
(***************************************************************************)
EXTENDS Integers, Sequences, FiniteSets, TLC

\* BT is the backtick character.
BT == "bt"
NL == "nl"
SP == "sp"
X  == "x"
Y  == "y"

\* The tags of the regular expression's alternation (extension.ts:31).
Tags == {"typescript", "javascript", "ts", "js"}
\* Words a fence may carry; "py" is a tag the expression does not list.
Words == Tags \cup {"py"}

Fence == <<BT, BT, BT>>

----------------------------------------------------------------------------
(* String.prototype.trim: strips leading and trailing white space.         *)

IsWhiteSpace(c) == c \in {NL, SP}

RECURSIVE TrimStart(_)
TrimStart(s) ==
    IF s = <<>> THEN s
    ELSE IF IsWhiteSpace(Head(s)) THEN TrimStart(Tail(s)) ELSE s

RECURSIVE TrimEnd(_)
TrimEnd(s) ==
    IF s = <<>> THEN s
    ELSE IF IsWhiteSpace(s[Len(s)]) THEN TrimEnd(SubSeq(s, 1, Len(s) - 1)) ELSE s

Trim(s) == TrimEnd(TrimStart(s))

----------------------------------------------------------------------------
(* codeBlockRegex: three backticks, an optional tag among Tags, a newline, *)
(* a lazy capturing group of any characters, three backticks.              *)

IsFenceAt(s, p) ==
    /\ p >= 1
    /\ p + 2 <= Len(s)
    /\ s[p] = BT /\ s[p + 1] = BT /\ s[p + 2] = BT

\* Length of fence + optional tag + newline matched at p, or 0 when it does not
\* match there.
OpenLen(s, p) ==
    IF ~IsFenceAt(s, p) THEN 0
    ELSE IF p + 4 <= Len(s) /\ s[p + 3] \in Tags /\ s[p + 4] = NL THEN 5
    ELSE IF p + 3 <= Len(s) /\ s[p + 3] = NL THEN 4
    ELSE 0

\* The lazy group stops at the first fence at or after q; 0 when there is none.
RECURSIVE CloseAt(_, _)
CloseAt(s, q) ==
    IF q + 2 > Len(s) THEN 0
    ELSE IF IsFenceAt(s, q) THEN q
    ELSE CloseAt(s, q + 1)

MatchAt(s, p) == OpenLen(s, p) > 0 /\ CloseAt(s, p + OpenLen(s, p)) > 0

\* The leftmost position at or after p where the expression matches; 0 when
\* there is none.
RECURSIVE MatchFrom(_, _)
MatchFrom(s, p) ==
    IF p > Len(s) THEN 0
    ELSE IF MatchAt(s, p) THEN p
    ELSE MatchFrom(s, p + 1)

\* String.prototype.match without the g flag: the leftmost match; 0 is null.
MatchStart(s) == MatchFrom(s, 1)

\* match[1]: the text of the capturing group of the leftmost match.
MatchGroup(s) ==
    LET p == MatchStart(s)
        q == p + OpenLen(s, p)
    IN  SubSeq(s, q, CloseAt(s, q) - 1)

\* The extractor with the fallback left untrimmed.
ExtractFallbackRaw(response) ==
    IF MatchStart(response) > 0 /\ MatchGroup(response) # <<>>
    THEN Trim(MatchGroup(response))
    ELSE response

extractCodeFromResponse(response) ==
    IF MatchStart(response) > 0 /\ MatchGroup(response) # <<>>
    THEN Trim(MatchGroup(response))
    ELSE Trim(response)

----------------------------------------------------------------------------
(* Bounds of the model.                                                    *)

\* Pieces a response of the extractor check is built from.
MaxPieces == 5
\* Candidate files of the workspace (findFiles).
NFiles == 3
\* Overlapping invocations of the fix-current-file command.
NSingle == 1
\* Overlapping invocations of the AI-commit command.
NCommit == 2
\* Edits the user makes to the files while the flows run.
MaxUserEdits == 1
\* Diagnostics handed to one call of buildFixPrompt.
MaxDiags == 3
\* Times the user stages changes while the commit runs are under way.
MaxStages == 1

----------------------------------------------------------------------------
(* The state.                                                              *)

VARIABLES
    \* the extractor applied to a response, and to its own output
    xpc, xResp, xOut, xOut2,
    \* buildFixPrompt applied to a code, a sequence of diagnostics and a path
    ppc, pCode, pErrors, pPath, pPrompt,
    \* config resolution: the user's file, the environment, loadConfig's
    \* result, the client's options and the model named in a request
    kpc, cfgFile, env, config, clientOptions, reqModel, kLog,
    \* the host: workspace folder, diagnostics and text of each file
    hasWorkspace, diagnostics, text, userEdits,
    \* fixCodeWithAI, one request per caller (the batch run, each single run)
    rq,
    \* what happened to each caller's request for each file
    calls, edits, outcome, resp, applied,
    \* fixAllFiles
    bpc, bIdx, fixedCount, bLog, bNotes,
    \* fixCurrentFile, one run per slot
    spc, sEditor, sNotes,
    \* the git working copy and the transient commit-message file
    isRepo, hasStaged, hasUntracked, hasModified, indexHasEntries,
    diffOutputEmpty, tmpFile, commitLog, userStages,
    \* aiCommit, one run per slot
    cpc, changes, cmsg, cNotes,
    \* what each commit run did and saw
    collects, completions, writes, gitRuns, consumed, genOutcome, sawNoChanges

xvars   == <<xpc, xResp, xOut, xOut2>>
pvars   == <<ppc, pCode, pErrors, pPath, pPrompt>>
kvars   == <<kpc, cfgFile, env, config, clientOptions, reqModel, kLog>>
purevars == <<pvars, kvars>>
hostvars == <<hasWorkspace, diagnostics, text, userEdits>>
histvars == <<calls, edits, outcome, resp, applied>>
bvars   == <<bpc, bIdx, fixedCount, bLog, bNotes>>
svars   == <<spc, sEditor, sNotes>>
fixvars == <<hostvars, rq, histvars, bvars, svars>>

gitvars == <<isRepo, hasStaged, hasUntracked, hasModified, indexHasEntries,
             diffOutputEmpty, tmpFile, commitLog, userStages>>
cvars   == <<cpc, changes, cmsg, cNotes>>
cghost  == <<collects, completions, writes, gitRuns, consumed, genOutcome,
             sawNoChanges>>
commitvars == <<gitvars, cvars, cghost>>

vars == <<xvars, purevars, fixvars, commitvars>>

CommitRuns == 1..NCommit

\* The transient file os.tmpdir()/commit-message.txt: absent, or its content.
NoFile == [exists |-> FALSE, content |-> <<>>]
FileWith(m) == [exists |-> TRUE, content |-> m]

\* What the git process of a run read from the file given with -F.
Unread == [read |-> FALSE, found |-> FALSE, content |-> <<>>]

\* Answers of the completion endpoint to the commit-message request:
\* it throws, or choices[0]?.message?.content is absent, empty or a message.
GenReplies ==
    { [kind |-> "throwError", message |-> <<"network">>],
      [kind |-> "throwOther", message |-> <<>>],
      [kind |-> "absent", message |-> <<>>],
      [kind |-> "message", message |-> <<>>],
      [kind |-> "message", message |-> <<"fix: add foo">>],
      [kind |-> "message", message |-> <<"feat: add bar">>] }

Files   == 1..NFiles
Singles == 1..NSingle
\* The caller id of the batch run; the single runs are 1..NSingle.
Batch   == 0
Callers == {Batch} \cup Singles

NoEditor == 0
Absent == "absent"

\* vscode.Diagnostic, as far as the code reads it: message, range.start.line.
D1 == [message |-> <<"Unexpected any">>, line |-> 4]
D2 == [message |-> <<"Missing semicolon">>, line |-> 0]
\* A message of two lines, as the compiler writes a chain of causes.
D3 == [message |-> <<"Type mismatch.", NL, SP, "Property missing.">>, line |-> 9]
DiagSeqs == {<<>>, <<D2, D1>>}

Original   == <<"o">>
UserText   == <<"u", "v">>

\* Streams the completion transport may deliver: sequences of fragments, a
\* fragment being the text of chunk.choices[0]?.delta?.content or Absent.
FencedStream     == << Fence \o <<"ts", NL, X>>, <<NL>> \o Fence >>
PlainStream      == << <<X>>, Absent, <<Y, SP>> >>
BlankStream      == << <<SP>>, <<NL>> >>
EmptyBlockStream == << Fence \o <<NL>> \o Fence >>
NoChunkStream    == << >>
Streams == {FencedStream, PlainStream, BlankStream, EmptyBlockStream, NoChunkStream}

\* What the transport may throw: an Error with a message, or a non-Error.
TransportFailures ==
    { [isError |-> TRUE, message |-> <<"network">>],
      [isError |-> FALSE, message |-> <<>>] }

IdleRq == [st |-> "idle", file |-> 0, code |-> <<>>, prompt |-> <<>>,
           stream |-> <<>>, pending |-> <<>>, full |-> <<>>, out |-> <<>>]

----------------------------------------------------------------------------
(* loadConfig and the resolution of the settings (extension.ts:15-48, 84). *)

\* The settings object of the file: each field absent, empty or a text.
SettingNames == {"apiKey", "apiBase", "model"}
FileValues == {Absent, "", "from file"}
NoSettings == [n \in SettingNames |-> Absent]

\* What JSON.parse may return, as far as config?.openai?.<field> reads it:
\* null, a value with no openai member, a value with one.
NullValue == [isNull |-> TRUE, hasOpenai |-> FALSE, openai |-> NoSettings]
PlainValue == [isNull |-> FALSE, hasOpenai |-> FALSE, openai |-> NoSettings]
SettingsValue(o) == [isNull |-> FALSE, hasOpenai |-> TRUE, openai |-> o]
ParsedValues ==
    {NullValue, PlainValue} \cup {SettingsValue(o) : o \in [SettingNames -> FileValues]}

\* ~/.codefixrc.json: not there, there and not readable, readable and not
\* JSON, or JSON of some value.
NoConfigFile == [kind |-> "missing", value |-> NullValue]
ConfigFiles ==
    {NoConfigFile,
     [kind |-> "unreadable", value |-> NullValue],
     [kind |-> "unparsable", value |-> NullValue]}
    \cup {[kind |-> "parsed", value |-> v] : v \in ParsedValues}

\* The variables of process.env the module reads, and OPENAI_MODEL, which it
\* does not read.
EnvNames == {"OPENAI_API_BASE", "OPENAI_API_KEY", "OPENAI_MODEL"}
EnvValues == {Absent, "", "from env"}

DefaultApiBase == "https://api.openai.com/v1"
DefaultModel == "gpt-4-turbo-preview"

\* The body of loadConfig's try block: existsSync, readFileSync, JSON.parse.
TryLoad(file) ==
    IF file.kind = "missing" THEN [threw |-> FALSE, returned |-> FALSE, value |-> NullValue]
    ELSE IF file.kind \in {"unreadable", "unparsable"}
    THEN [threw |-> TRUE, returned |-> FALSE, value |-> NullValue]
    ELSE [threw |-> FALSE, returned |-> TRUE, value |-> file.value]

\* loadConfig: the parsed value, or null when there is no file or the try
\* block threw.
loadConfig(file) ==
    IF TryLoad(file).returned THEN TryLoad(file).value ELSE NullValue

\* config?.openai?.<field>
Setting(cfg, field) ==
    IF cfg.isNull \/ ~cfg.hasOpenai THEN Absent ELSE cfg.openai[field]

\* a || b: a when it is truthy, b otherwise.
Truthy(v) == v \notin {Absent, ""}
\* The choice as it would be with the second operand preferred.
OrElseSecond(a, b) == IF Truthy(b) THEN b ELSE a
OrElse(a, b) == IF Truthy(a) THEN a ELSE b

\* const config = loadConfig() (extension.ts:41).
KLoad ==
    /\ kpc = "start"
    /\ config' = loadConfig(cfgFile)
    /\ kLog' = IF TryLoad(cfgFile).threw
               THEN Append(kLog, "Error loading config:") ELSE kLog
    /\ kpc' = "loaded"
    /\ UNCHANGED <<cfgFile, env, clientOptions, reqModel,
                   xvars, pvars, fixvars, commitvars>>

\* new OpenAI({baseURL, apiKey, ...}) (extension.ts:42-48).
KClient ==
    /\ kpc = "loaded"
    /\ clientOptions' =
          [baseURL |-> OrElse(OrElse(Setting(config, "apiBase"), env["OPENAI_API_BASE"]),
                              DefaultApiBase),
           apiKey |-> OrElse(Setting(config, "apiKey"), env["OPENAI_API_KEY"])]
    /\ kpc' = "client"
    /\ UNCHANGED <<cfgFile, env, config, reqModel, kLog,
                   xvars, pvars, fixvars, commitvars>>

\* model: config?.openai?.model || "gpt-4-turbo-preview", as a request names
\* it (extension.ts:84, 275).
KModel ==
    /\ kpc = "client"
    /\ reqModel' = OrElse(Setting(config, "model"), DefaultModel)
    /\ kpc' = "resolved"
    /\ UNCHANGED <<cfgFile, env, config, clientOptions, kLog,
                   xvars, pvars, fixvars, commitvars>>

----------------------------------------------------------------------------
(* buildFixPrompt (extension.ts:57-76).                                    *)

\* The decimal digits, as the template literal prints a number.
DigitChars == <<"0", "1", "2", "3", "4", "5", "6", "7", "8", "9">>

\* String(n) for a natural number n.
RECURSIVE ToDigits(_)
ToDigits(n) ==
    IF n < 10 THEN <<DigitChars[n + 1]>>
    ELSE ToDigits(n \div 10) \o <<DigitChars[(n % 10) + 1]>>

\* Array.prototype.join: the texts with sep between them.
RECURSIVE Join(_, _)
Join(texts, sep) ==
    IF texts = <<>> THEN <<>>
    ELSE IF Len(texts) = 1 THEN texts[1]
    ELSE texts[1] \o sep \o Join(Tail(texts), sep)

\* errors.map(...): the message and the range of each diagnostic, in order.
errorMessages(errors) ==
    [i \in 1..Len(errors) |-> [message |-> errors[i].message, line |-> errors[i].line]]

\* Error: <message> at line <range.start.line + 1>
ErrorLine(err) ==
    <<"Error: ">> \o err.message \o <<" at line ">> \o ToDigits(err.line + 1)

PromptHead == "Fix any issues in the following code from file path "
PromptTail == "Return the fixed code wrapped in a code block with the language specified (typescript or javascript)."

buildFixPrompt(code, errors, filePath) ==
    <<PromptHead>> \o filePath \o <<":", NL, NL>>
    \o Join([i \in 1..Len(errors) |-> ErrorLine(errorMessages(errors)[i])], <<NL>>)
    \o <<NL, NL>>
    \o Fence \o <<"typescript", NL>>
    \o code \o <<NL>>
    \o Fence \o <<NL, NL, NL>>
    \o <<PromptTail>>

\* file.fsPath, document.fileName: the path of a file of the workspace.
FilePath(f) == <<"/w/f">> \o ToDigits(f) \o <<".ts">>

----------------------------------------------------------------------------
(* fixCodeWithAI (extension.ts:79-120).                                    *)

\* The catch clause: every failure is rethrown wrapped in one message.
WrapAIError(e) ==
    IF e.isError THEN <<"Failed to get AI response: ">> \o e.message
    ELSE <<"Failed to get AI response: Unknown error">>

ExtractFailure == [isError |-> TRUE,
                   message |-> <<"Failed to extract code from AI response">>]

\* chunk.choices[0]?.delta?.content || ''
ChunkContent(fragment) == IF fragment = Absent THEN <<>> ELSE fragment

\* The request is submitted: buildFixPrompt over the text as read now, then
\* openai.chat.completions.create is awaited.
SubmitFix(c, f) ==
    /\ rq' = [rq EXCEPT ![c] =
                [st |-> "create", file |-> f, code |-> text[f],
                 prompt |-> buildFixPrompt(text[f], diagnostics[f], FilePath(f)),
                 stream |-> <<>>, pending |-> <<>>, full |-> <<>>, out |-> <<>>]]
    /\ calls' = [calls EXCEPT ![c][f] = @ + 1]

\* The transport answers the create call: it throws, or hands over a stream.
FixCreate(c) ==
    /\ rq[c].st = "create"
    /\ \/ \E e \in TransportFailures :
            /\ rq' = [rq EXCEPT ![c].st = "err", ![c].out = WrapAIError(e)]
            /\ outcome' = [outcome EXCEPT ![c][rq[c].file] = "raised"]
       \/ \E s \in Streams :
            /\ rq' = [rq EXCEPT ![c].st = "stream", ![c].stream = s,
                                ![c].pending = s]
            /\ UNCHANGED outcome
    /\ UNCHANGED <<commitvars, xvars, purevars, hostvars, calls, edits, applied, resp, bvars, svars>>

\* The loop as it would be if it put each fragment before the text so far.
FixChunkPrepending(c) ==
    /\ rq[c].st = "stream"
    /\ rq[c].pending # <<>>
    /\ rq' = [rq EXCEPT ![c].full = ChunkContent(Head(rq[c].pending)) \o @,
                        ![c].pending = Tail(@)]
    /\ UNCHANGED <<commitvars, xvars, purevars, hostvars, histvars, bvars, svars>>

\* One turn of the for-await loop: fullResponse += content.
FixChunk(c) ==
    /\ rq[c].st = "stream"
    /\ rq[c].pending # <<>>
    /\ rq' = [rq EXCEPT ![c].full = @ \o ChunkContent(Head(rq[c].pending)),
                        ![c].pending = Tail(@)]
    /\ UNCHANGED <<commitvars, xvars, purevars, hostvars, histvars, bvars, svars>>

\* The stream fails while it is iterated.
FixStreamError(c) ==
    /\ rq[c].st = "stream"
    /\ \E e \in TransportFailures :
          rq' = [rq EXCEPT ![c].st = "err", ![c].out = WrapAIError(e)]
    /\ outcome' = [outcome EXCEPT ![c][rq[c].file] = "streamerr"]
    /\ UNCHANGED <<commitvars, xvars, purevars, hostvars, calls, edits, applied, resp, bvars, svars>>

\* The request as it would end with no check of the extracted code.
FixStreamEndNoCheck(c) ==
    /\ rq[c].st = "stream"
    /\ rq[c].pending = <<>>
    /\ rq' = [rq EXCEPT ![c].st = "ok",
                        ![c].out = extractCodeFromResponse(rq[c].full)]
    /\ outcome' = [outcome EXCEPT ![c][rq[c].file] = "complete"]
    /\ resp' = [resp EXCEPT ![c][rq[c].file] = rq[c].full]
    /\ UNCHANGED <<commitvars, xvars, purevars, hostvars, calls, edits, applied, bvars, svars>>

\* The stream is complete: extract the code; empty code is thrown, and caught
\* by the function's own catch clause.
FixStreamEnd(c) ==
    /\ rq[c].st = "stream"
    /\ rq[c].pending = <<>>
    /\ LET fixedCode == extractCodeFromResponse(rq[c].full)
       IN  IF fixedCode = <<>>
           THEN rq' = [rq EXCEPT ![c].st = "err",
                                 ![c].out = WrapAIError(ExtractFailure)]
           ELSE rq' = [rq EXCEPT ![c].st = "ok", ![c].out = fixedCode]
    /\ outcome' = [outcome EXCEPT ![c][rq[c].file] = "complete"]
    /\ resp' = [resp EXCEPT ![c][rq[c].file] = rq[c].full]
    /\ UNCHANGED <<commitvars, xvars, purevars, hostvars, calls, edits, applied, bvars, svars>>

\* What is remembered of a replacement: the text the prompt was built from,
\* the text the replacement found, and the fix.
NotApplied == [done |-> FALSE, read |-> <<>>, before |-> <<>>, fix |-> <<>>]
Applied(c, f, fixedCode) ==
    [done |-> TRUE, read |-> rq[c].code, before |-> text[f], fix |-> fixedCode]

\* The replacement as it would be over the range of the text as it was read
\* for the prompt.
ReplaceReadRange(c, f, fixedCode) ==
    /\ text' = [text EXCEPT ![f] =
                  fixedCode \o SubSeq(@, Len(rq[c].code) + 1, Len(@))]
    /\ edits' = [edits EXCEPT ![c][f] = @ + 1]
    /\ applied' = [applied EXCEPT ![c][f] = Applied(c, f, fixedCode)]

\* editBuilder.replace(fullRange, fixedCode): fullRange spans the whole of the
\* document's text as it is when the edit runs.
ReplaceFullText(c, f, fixedCode) ==
    /\ text' = [text EXCEPT ![f] = fixedCode]
    /\ edits' = [edits EXCEPT ![c][f] = @ + 1]
    /\ applied' = [applied EXCEPT ![c][f] = Applied(c, f, fixedCode)]

Info(t)  == [kind |-> "info", text |-> t]
Error(t) == [kind |-> "error", text |-> t]
\* The closing notice of the batch run: "Fixed <n> files successfully!".
Report(n) == [kind |-> "info", text |-> <<"Fixed ", " files successfully!">>,
              count |-> n]

----------------------------------------------------------------------------
(* fixAllFiles (extension.ts:176-218).                                     *)

\* The command starts: no workspace folder ends it with a notice; otherwise
\* findFiles yields the candidate files and the loop starts at the first.
BatchStart ==
    /\ bpc = "idle"
    /\ IF ~hasWorkspace
       THEN /\ bNotes' = Append(bNotes, Info(<<"No workspace folder open">>))
            /\ bpc' = "done"
            /\ UNCHANGED <<bIdx, fixedCount>>
       ELSE /\ bpc' = "loop"
            /\ bIdx' = 1
            /\ fixedCount' = 0
            /\ UNCHANGED bNotes
    /\ UNCHANGED <<commitvars, xvars, purevars, hostvars, rq, histvars, bLog, svars>>

\* One file of the loop: open it, fetch its diagnostics; none: next file;
\* some: call fixCodeWithAI on the text as it is now.
BatchOpen ==
    /\ bpc = "loop"
    /\ bIdx <= NFiles
    /\ IF Len(diagnostics[bIdx]) > 0
       THEN /\ SubmitFix(Batch, bIdx)
            /\ bpc' = "fix"
            /\ UNCHANGED bIdx
       ELSE /\ bIdx' = bIdx + 1
            /\ UNCHANGED <<bpc, rq, calls>>
    /\ UNCHANGED <<commitvars, xvars, purevars, hostvars, edits, applied, outcome, resp, fixedCount, bLog,
                   bNotes, svars>>

\* fixCodeWithAI returned: showTextDocument is awaited.
BatchShow ==
    /\ bpc = "fix"
    /\ rq[Batch].st = "ok"
    /\ bpc' = "edit"
    /\ UNCHANGED <<commitvars, xvars, purevars, hostvars, rq, histvars, bIdx, fixedCount, bLog,
                   bNotes, svars>>

\* The count as it would be kept if every file with diagnostics counted.
BatchEdit ==
    /\ bpc = "edit"
    /\ ReplaceFullText(Batch, bIdx, rq[Batch].out)
    /\ fixedCount' = fixedCount + 1
    /\ rq' = [rq EXCEPT ![Batch] = IdleRq]
    /\ bIdx' = bIdx + 1
    /\ bpc' = "loop"
    /\ UNCHANGED <<commitvars, xvars, purevars, hasWorkspace, diagnostics, userEdits, calls, outcome,
                   resp, bLog, bNotes, svars>>

\* The catch clause of the loop as it would be if it counted the file.
BatchCatchCounting ==
    /\ bpc = "fix"
    /\ rq[Batch].st = "err"
    /\ bLog' = Append(bLog, [file |-> bIdx, message |-> rq[Batch].out])
    /\ fixedCount' = fixedCount + 1
    /\ rq' = [rq EXCEPT ![Batch] = IdleRq]
    /\ bIdx' = bIdx + 1
    /\ bpc' = "loop"
    /\ UNCHANGED <<commitvars, xvars, purevars, hostvars, histvars, bNotes, svars>>

\* The catch clause of the loop as it would be if it ended the loop.
BatchCatchAborting ==
    /\ bpc = "fix"
    /\ rq[Batch].st = "err"
    /\ bLog' = Append(bLog, [file |-> bIdx, message |-> rq[Batch].out])
    /\ rq' = [rq EXCEPT ![Batch] = IdleRq]
    /\ bIdx' = NFiles + 1
    /\ bpc' = "loop"
    /\ UNCHANGED <<commitvars, xvars, purevars, hostvars, histvars, fixedCount, bNotes, svars>>

\* fixCodeWithAI threw: the failure is logged and the loop goes on.
BatchCatch ==
    /\ bpc = "fix"
    /\ rq[Batch].st = "err"
    /\ bLog' = Append(bLog, [file |-> bIdx, message |-> rq[Batch].out])
    /\ rq' = [rq EXCEPT ![Batch] = IdleRq]
    /\ bIdx' = bIdx + 1
    /\ bpc' = "loop"
    /\ UNCHANGED <<commitvars, xvars, purevars, hostvars, histvars, fixedCount, bNotes, svars>>

\* After the last file: the count is shown.
BatchReport ==
    /\ bpc = "loop"
    /\ bIdx > NFiles
    /\ bNotes' = Append(bNotes, Report(fixedCount))
    /\ bpc' = "done"
    /\ UNCHANGED <<commitvars, xvars, purevars, hostvars, rq, histvars, bIdx, fixedCount, bLog, svars>>

BatchNext ==
    \/ BatchStart
    \/ BatchOpen
    \/ FixCreate(Batch)
    \/ FixChunk(Batch)
    \/ FixStreamError(Batch)
    \/ FixStreamEnd(Batch)
    \/ BatchShow
    \/ BatchEdit
    \/ BatchCatch
    \/ BatchReport

----------------------------------------------------------------------------
(* fixCurrentFile (extension.ts:123-173), one run per slot.                *)

\* The command starts: no active editor ends it with a notice; otherwise the
\* diagnostics of the editor's document are awaited.
SingleStart(s) ==
    /\ spc[s] = "idle"
    /\ \/ /\ sNotes' = [sNotes EXCEPT ![s] = Append(@, Info(<<"No active editor">>))]
          /\ spc' = [spc EXCEPT ![s] = "done"]
          /\ UNCHANGED sEditor
       \/ \E f \in Files :
          /\ sEditor' = [sEditor EXCEPT ![s] = f]
          /\ spc' = [spc EXCEPT ![s] = "diag"]
          /\ UNCHANGED sNotes
    /\ UNCHANGED <<commitvars, xvars, purevars, hostvars, rq, histvars, bvars>>

\* The diagnostics arrive: none ends the run with a notice; some: call
\* fixCodeWithAI on the text as it is now.
SingleDiag(s) ==
    /\ spc[s] = "diag"
    /\ IF Len(diagnostics[sEditor[s]]) = 0
       THEN /\ sNotes' = [sNotes EXCEPT ![s] =
                            Append(@, Info(<<"No errors found in the current file">>))]
            /\ spc' = [spc EXCEPT ![s] = "done"]
            /\ UNCHANGED <<rq, calls>>
       ELSE /\ SubmitFix(s, sEditor[s])
            /\ spc' = [spc EXCEPT ![s] = "fix"]
            /\ UNCHANGED sNotes
    /\ UNCHANGED <<commitvars, xvars, purevars, hostvars, edits, applied, outcome, resp, bvars, sEditor>>

\* fixCodeWithAI returned: the whole text is replaced, and success is shown.
SingleEdit(s) ==
    /\ spc[s] = "fix"
    /\ rq[s].st = "ok"
    /\ ReplaceFullText(s, sEditor[s], rq[s].out)
    /\ rq' = [rq EXCEPT ![s] = IdleRq]
    /\ sNotes' = [sNotes EXCEPT ![s] = Append(@, Info(<<"Code fixed successfully!">>))]
    /\ spc' = [spc EXCEPT ![s] = "done"]
    /\ UNCHANGED <<commitvars, xvars, purevars, hasWorkspace, diagnostics, userEdits, calls, outcome,
                   resp, bvars, sEditor>>

\* fixCodeWithAI threw: the failure is shown.
SingleCatch(s) ==
    /\ spc[s] = "fix"
    /\ rq[s].st = "err"
    /\ sNotes' = [sNotes EXCEPT ![s] =
                    Append(@, Error(<<"Failed to fix code: ">> \o rq[s].out))]
    /\ rq' = [rq EXCEPT ![s] = IdleRq]
    /\ spc' = [spc EXCEPT ![s] = "done"]
    /\ UNCHANGED <<commitvars, xvars, purevars, hostvars, histvars, bvars, sEditor>>

SingleNext(s) ==
    \/ SingleStart(s)
    \/ SingleDiag(s)
    \/ FixCreate(s)
    \/ FixChunk(s)
    \/ FixStreamError(s)
    \/ FixStreamEnd(s)
    \/ SingleEdit(s)
    \/ SingleCatch(s)

\* The user types into a file while a flow is suspended.
UserEdit ==
    /\ userEdits < MaxUserEdits
    /\ \E f \in Files : text' = [text EXCEPT ![f] = UserText]
    /\ userEdits' = userEdits + 1
    /\ UNCHANGED <<commitvars, xvars, purevars, hasWorkspace, diagnostics, rq, histvars, bvars, svars>>

----------------------------------------------------------------------------
(* The specifications of the fix flows.                                    *)

CommitIdle ==
    /\ isRepo = FALSE
    /\ hasStaged = FALSE
    /\ hasUntracked = FALSE
    /\ hasModified = FALSE
    /\ indexHasEntries = FALSE
    /\ diffOutputEmpty = FALSE
    /\ tmpFile = NoFile
    /\ commitLog = <<>>
    /\ userStages = 0
    /\ cpc = [r \in CommitRuns |-> "idle"]
    /\ changes = [r \in CommitRuns |-> <<>>]
    /\ cmsg = [r \in CommitRuns |-> <<>>]
    /\ cNotes = [r \in CommitRuns |-> <<>>]
    /\ collects = [r \in CommitRuns |-> 0]
    /\ completions = [r \in CommitRuns |-> 0]
    /\ writes = [r \in CommitRuns |-> 0]
    /\ gitRuns = [r \in CommitRuns |-> 0]
    /\ consumed = [r \in CommitRuns |-> Unread]
    /\ genOutcome = [r \in CommitRuns |-> "none"]
    /\ sawNoChanges = [r \in CommitRuns |-> FALSE]

XIdle ==
    /\ xpc = "off"
    /\ xResp = <<>>
    /\ xOut = <<>>
    /\ xOut2 = <<>>

PIdle ==
    /\ ppc = "off"
    /\ pCode = <<>>
    /\ pErrors = <<>>
    /\ pPath = <<>>
    /\ pPrompt = <<>>

KIdle ==
    /\ kpc = "off"
    /\ cfgFile = NoConfigFile
    /\ env = [n \in EnvNames |-> Absent]
    /\ config = NullValue
    /\ clientOptions = [baseURL |-> Absent, apiKey |-> Absent]
    /\ reqModel = Absent
    /\ kLog = <<>>

PureIdle == XIdle /\ PIdle /\ KIdle

FixRest ==
    /\ text = [f \in Files |-> Original]
    /\ userEdits = 0
    /\ rq = [c \in Callers |-> IdleRq]
    /\ calls = [c \in Callers |-> [f \in Files |-> 0]]
    /\ edits = [c \in Callers |-> [f \in Files |-> 0]]
    /\ outcome = [c \in Callers |-> [f \in Files |-> "none"]]
    /\ resp = [c \in Callers |-> [f \in Files |-> <<>>]]
    /\ applied = [c \in Callers |-> [f \in Files |-> NotApplied]]
    /\ bpc = "idle"
    /\ bIdx = 0
    /\ fixedCount = 0
    /\ bLog = <<>>
    /\ bNotes = <<>>
    /\ spc = [s \in Singles |-> "idle"]
    /\ sEditor = [s \in Singles |-> NoEditor]
    /\ sNotes = [s \in Singles |-> <<>>]

FixInit ==
    /\ hasWorkspace \in BOOLEAN
    /\ diagnostics \in [Files -> DiagSeqs]
    /\ FixRest

InitFix == PureIdle /\ FixInit /\ CommitIdle

NextBatch == BatchNext \/ UserEdit

NextSingle == (\E s \in Singles : SingleNext(s)) \/ UserEdit

NextFix == BatchNext \/ (\E s \in Singles : SingleNext(s))

\* The batch command alone, with the user editing on the side.
SpecBatch == InitFix /\ [][NextBatch]_vars

\* The batch command with every step of its run taken in the end: the host
\* and the transport answer every call.
FairSpecBatch == InitFix /\ [][BatchNext]_vars /\ WF_vars(BatchNext)

\* The single-file command, with the user editing on the side.
SpecSingle == InitFix /\ [][NextSingle]_vars

\* The batch command and the single-file command side by side.
SpecFix == InitFix /\ [][NextFix]_vars

----------------------------------------------------------------------------
(* Properties of the fix flows.                                            *)

WithDiagnostics == {f \in Files : Len(diagnostics[f]) > 0}

\* The completion call of caller c for file f failed: the create call threw,
\* or the stream failed while it was read.
CallFailed(c, f) == outcome[c][f] \in {"raised", "streamerr"}

\* The fix request of caller c for file f failed: its completion call failed,
\* or the complete response yielded no code.
RequestFailed(c, f) ==
    \/ CallFailed(c, f)
    \/ /\ outcome[c][f] = "complete"
       /\ extractCodeFromResponse(resp[c][f]) = <<>>

BatchReported == bpc = "done" /\ bNotes # <<>> /\ "count" \in DOMAIN bNotes[Len(bNotes)]

ReportedCount == bNotes[Len(bNotes)].count

InteriorOrWhole(r) ==
    IF MatchStart(r) > 0 THEN Trim(MatchGroup(r)) ELSE Trim(r)

\* C3: a complete response whose extracted text is empty or blank makes the
\* request fail, and no replacement is issued for the file, in the single-file
\* and in the batch flow.
C3_EmptyFixFailsAndIsNotApplied ==
    \A c \in Callers : \A f \in Files :
        (outcome[c][f] = "complete" /\ InteriorOrWhole(resp[c][f]) = <<>>) =>
            /\ edits[c][f] = 0
            /\ ~(rq[c].file = f /\ rq[c].st = "ok")

\* C4: a fix request that fails (the create call throws, the stream fails, or
\* no code is extracted) issues no replacement for its file, and the file
\* nobody replaced holds its original text.
C4_FailedRequestLeavesFileUntouched ==
    \A f \in Files :
        /\ \A c \in Callers : RequestFailed(c, f) => edits[c][f] = 0
        /\ (\A c \in Callers : edits[c][f] = 0) => text[f] = Original

\* Both flows have ended, the batch after a stream that failed midway and a
\* single run after a blank response.
C4_Witness ==
    /\ bpc = "done"
    /\ \E f \in Files : outcome[Batch][f] = "streamerr" /\ edits[Batch][f] = 0
    /\ \E s \in Singles :
          /\ spc[s] = "done"
          /\ sEditor[s] # NoEditor
          /\ outcome[s][sEditor[s]] = "complete"
          /\ resp[s][sEditor[s]] # <<>>
          /\ RequestFailed(s, sEditor[s])

ExactlyOneCallPerFileWithDiagnostics ==
    \A f \in Files :
        /\ calls[Batch][f] = IF f \in WithDiagnostics THEN 1 ELSE 0
        /\ f \notin WithDiagnostics => edits[Batch][f] = 0

----------------------------------------------------------------------------
(* aiCommit (extension.ts:221-362), one run per slot.                      *)

\* The catch clause of getStagedChanges wraps every failure.
WrapStagedError(m) == <<"getStagedChanges failed: ">> \o m
\* The catch clause of generateCommitMessage wraps every failure.
WrapGenerateError(m) == <<"generateCommitMessage failed: ">> \o m
CommitExecError == <<"Failed to execute git commit">>

NoWorkspaceMsg   == <<"no workspace folder is open">>
NotARepoMsg      == <<"the directory is not a git repository">>
NoStagedChangesMsg == <<"no staged changes">>
NoStagedFilesMsg == <<"no staged files">>
NoChangeTextMsg  == <<"cannot get the content of the staged changes">>
EmptyMessageMsg  == <<"the AI returned an empty message">>

\* A step of the run throws: aiCommit's catch clause shows the message and
\* the run is over.
CommitFail(r, m) ==
    /\ cNotes' = [cNotes EXCEPT ![r] = Append(@, Error(m))]
    /\ cpc' = [cpc EXCEPT ![r] = "done"]

\* The command starts and getStagedChanges runs up to its first git call.
CommitStart(r) ==
    /\ cpc[r] = "idle"
    /\ collects' = [collects EXCEPT ![r] = @ + 1]
    /\ IF ~hasWorkspace
       THEN CommitFail(r, WrapStagedError(NoWorkspaceMsg))
       ELSE cpc' = [cpc EXCEPT ![r] = "revparse"] /\ UNCHANGED cNotes
    /\ UNCHANGED <<xvars, purevars, fixvars, gitvars, changes, cmsg, completions, writes,
                   gitRuns, consumed, genOutcome, sawNoChanges>>

\* git rev-parse --git-dir
CommitRevParse(r) ==
    /\ cpc[r] = "revparse"
    /\ IF ~isRepo
       THEN CommitFail(r, WrapStagedError(NotARepoMsg))
       ELSE cpc' = [cpc EXCEPT ![r] = "status"] /\ UNCHANGED cNotes
    /\ UNCHANGED <<xvars, purevars, fixvars, gitvars, changes, cmsg, cghost>>

\* git status --porcelain: empty when nothing is staged, modified or untracked.
CommitStatus(r) ==
    /\ cpc[r] = "status"
    /\ sawNoChanges' = [sawNoChanges EXCEPT ![r] = ~hasStaged /\ ~hasUntracked]
    /\ IF ~(hasStaged \/ hasUntracked \/ hasModified)
       THEN CommitFail(r, WrapStagedError(NoStagedChangesMsg))
       ELSE cpc' = [cpc EXCEPT ![r] = "names"] /\ UNCHANGED cNotes
    /\ UNCHANGED <<xvars, purevars, fixvars, gitvars, changes, cmsg, collects, completions,
                   writes, gitRuns, consumed, genOutcome>>

\* The query of the staged names as it would be with its result unchecked.
CommitNamesUnchecked(r) ==
    /\ cpc[r] = "names"
    /\ cpc' = [cpc EXCEPT ![r] = "diff"]
    /\ UNCHANGED <<xvars, purevars, fixvars, gitvars, changes, cmsg, cNotes, cghost>>

\* git diff --cached --name-only: empty when no file is staged.
CommitNames(r) ==
    /\ cpc[r] = "names"
    /\ IF ~hasStaged
       THEN CommitFail(r, WrapStagedError(NoStagedFilesMsg))
       ELSE cpc' = [cpc EXCEPT ![r] = "diff"] /\ UNCHANGED cNotes
    /\ UNCHANGED <<xvars, purevars, fixvars, gitvars, changes, cmsg, cghost>>

\* getStagedChanges returns c: generateCommitMessage is called and awaits the
\* completion endpoint.
SubmitGenerate(r, c) ==
    /\ changes' = [changes EXCEPT ![r] = c]
    /\ completions' = [completions EXCEPT ![r] = @ + 1]
    /\ cpc' = [cpc EXCEPT ![r] = "generate"]

\* git diff --cached: its text is the changes; when it prints nothing the new
\* files are asked for.
CommitDiff(r) ==
    /\ cpc[r] = "diff"
    /\ IF hasStaged /\ ~diffOutputEmpty
       THEN SubmitGenerate(r, <<"diff">>)
       ELSE cpc' = [cpc EXCEPT ![r] = "lsfiles"] /\ UNCHANGED <<changes, completions>>
    /\ UNCHANGED <<xvars, purevars, fixvars, gitvars, cmsg, cNotes, collects, writes,
                   gitRuns, consumed, genOutcome, sawNoChanges>>

\* git ls-files --stage --others --exclude-standard: the entries of the index
\* and the untracked files.
CommitLsFiles(r) ==
    /\ cpc[r] = "lsfiles"
    /\ IF indexHasEntries \/ hasUntracked
       THEN SubmitGenerate(r, <<"new files">>) /\ UNCHANGED cNotes
       ELSE CommitFail(r, WrapStagedError(NoChangeTextMsg))
            /\ UNCHANGED <<changes, completions>>
    /\ UNCHANGED <<xvars, purevars, fixvars, gitvars, cmsg, collects, writes, gitRuns,
                   consumed, genOutcome, sawNoChanges>>

\* generateCommitMessage as it was before it checked the message:
\* return content || ''.
CommitGenerateUnchecked(r) ==
    /\ cpc[r] = "generate"
    /\ \E a \in GenReplies :
         /\ genOutcome' = [genOutcome EXCEPT ![r] =
                IF a.kind = "message" /\ a.message = <<>> THEN "empty" ELSE a.kind]
         /\ IF a.kind \in {"throwError", "throwOther"}
            THEN CommitFail(r, <<"Failed to generate commit message">>)
                 /\ UNCHANGED cmsg
            ELSE /\ cmsg' = [cmsg EXCEPT ![r] = a.message]
                 /\ cpc' = [cpc EXCEPT ![r] = "commit"]
                 /\ UNCHANGED cNotes
    /\ UNCHANGED <<xvars, purevars, fixvars, gitvars, changes, collects, completions,
                   writes, gitRuns, consumed, sawNoChanges>>

\* The completion endpoint answers: a throw and an absent or empty message
\* end the run; a message is returned to aiCommit.
CommitGenerate(r) ==
    /\ cpc[r] = "generate"
    /\ \E a \in GenReplies :
         /\ genOutcome' = [genOutcome EXCEPT ![r] =
                IF a.kind = "message" /\ a.message = <<>> THEN "empty" ELSE a.kind]
         /\ IF a.kind = "throwError"
            THEN CommitFail(r, WrapGenerateError(a.message)) /\ UNCHANGED cmsg
            ELSE IF a.kind = "throwOther"
            THEN CommitFail(r, WrapGenerateError(<<"unknown error">>)) /\ UNCHANGED cmsg
            ELSE IF a.kind = "absent" \/ a.message = <<>>
            THEN CommitFail(r, WrapGenerateError(EmptyMessageMsg)) /\ UNCHANGED cmsg
            ELSE /\ cmsg' = [cmsg EXCEPT ![r] = a.message]
                 /\ cpc' = [cpc EXCEPT ![r] = "commit"]
                 /\ UNCHANGED cNotes
    /\ UNCHANGED <<xvars, purevars, fixvars, gitvars, changes, collects, completions,
                   writes, gitRuns, consumed, sawNoChanges>>

\* executeGitCommit up to its await: the message is written to the transient
\* file and git commit -F <file> --edit is started.
CommitWrite(r) ==
    /\ cpc[r] = "commit"
    /\ tmpFile' = FileWith(cmsg[r])
    /\ writes' = [writes EXCEPT ![r] = @ + 1]
    /\ gitRuns' = [gitRuns EXCEPT ![r] = @ + 1]
    /\ cpc' = [cpc EXCEPT ![r] = "git"]
    /\ UNCHANGED <<xvars, purevars, fixvars, isRepo, userStages, hasStaged, hasUntracked, hasModified,
                   indexHasEntries, diffOutputEmpty, commitLog, changes, cmsg,
                   cNotes, collects, completions, consumed, genOutcome,
                   sawNoChanges>>

\* The git process reads the file named with -F; a missing file makes it fail.
GitRead(r) ==
    /\ cpc[r] = "git"
    /\ consumed' = [consumed EXCEPT ![r] =
            [read |-> TRUE, found |-> tmpFile.exists, content |-> tmpFile.content]]
    /\ cpc' = [cpc EXCEPT ![r] = IF tmpFile.exists THEN "gitread" ELSE "gitfailed"]
    /\ UNCHANGED <<xvars, purevars, fixvars, gitvars, changes, cmsg, cNotes, collects,
                   completions, writes, gitRuns, genOutcome, sawNoChanges>>

\* The git process ends: with status zero, the staged changes committed under
\* the message it read, or with a non-zero status (nothing staged any more,
\* the user left the editor with an empty message, a hook refused).
GitExit(r) ==
    /\ cpc[r] = "gitread"
    /\ \/ /\ hasStaged
          /\ hasStaged' = FALSE
          /\ commitLog' = Append(commitLog, [run |-> r, message |-> consumed[r].content])
          /\ cpc' = [cpc EXCEPT ![r] = "gitok"]
       \/ /\ cpc' = [cpc EXCEPT ![r] = "gitfailed"]
          /\ UNCHANGED <<hasStaged, commitLog>>
    /\ UNCHANGED <<xvars, purevars, fixvars, isRepo, userStages, hasUntracked, hasModified,
                   indexHasEntries, diffOutputEmpty, tmpFile, changes, cmsg,
                   cNotes, cghost>>

\* git commit failed: execAsync rejects, the unlink is skipped, and the catch
\* clause throws the fixed message.
CommitExecFailed(r) ==
    /\ cpc[r] = "gitfailed"
    /\ CommitFail(r, CommitExecError)
    /\ UNCHANGED <<xvars, purevars, fixvars, gitvars, changes, cmsg, cghost>>

\* git commit succeeded: fs.unlinkSync removes the file, and throws when the
\* file is not there; then success is shown.
CommitUnlink(r) ==
    /\ cpc[r] = "gitok"
    /\ IF tmpFile.exists
       THEN /\ tmpFile' = NoFile
            /\ cNotes' = [cNotes EXCEPT ![r] = Append(@, Info(<<"Commit created">>))]
            /\ cpc' = [cpc EXCEPT ![r] = "done"]
       ELSE /\ CommitFail(r, CommitExecError)
            /\ UNCHANGED tmpFile
    /\ UNCHANGED <<xvars, purevars, fixvars, isRepo, userStages, hasStaged, hasUntracked, hasModified,
                   indexHasEntries, diffOutputEmpty, commitLog, changes, cmsg,
                   cghost>>

CommitNext(r) ==
    \/ CommitStart(r)
    \/ CommitRevParse(r)
    \/ CommitStatus(r)
    \/ CommitNames(r)
    \/ CommitDiff(r)
    \/ CommitLsFiles(r)
    \/ CommitGenerate(r)
    \/ CommitWrite(r)
    \/ GitRead(r)
    \/ GitExit(r)
    \/ CommitExecFailed(r)
    \/ CommitUnlink(r)

\* The working copies the runs may start in.
GitInit ==
    /\ isRepo \in BOOLEAN
    /\ hasStaged \in BOOLEAN
    /\ hasUntracked \in BOOLEAN
    /\ hasModified \in BOOLEAN
    /\ indexHasEntries \in BOOLEAN
    /\ diffOutputEmpty \in BOOLEAN
    \* outside a repository there is nothing staged, modified or untracked
    /\ ~isRepo => ~(hasStaged \/ hasUntracked \/ hasModified \/ indexHasEntries)
    \* a modified tracked file is in the index
    /\ hasModified => indexHasEntries
    \* an empty diff of the staged changes needs staged changes
    /\ diffOutputEmpty => hasStaged

FixIdle ==
    /\ diagnostics = [f \in Files |-> <<>>]
    /\ FixRest

CommitInit ==
    /\ GitInit
    /\ tmpFile = NoFile
    /\ commitLog = <<>>
    /\ userStages = 0
    /\ cpc = [r \in CommitRuns |-> "idle"]
    /\ changes = [r \in CommitRuns |-> <<>>]
    /\ cmsg = [r \in CommitRuns |-> <<>>]
    /\ cNotes = [r \in CommitRuns |-> <<>>]
    /\ collects = [r \in CommitRuns |-> 0]
    /\ completions = [r \in CommitRuns |-> 0]
    /\ writes = [r \in CommitRuns |-> 0]
    /\ gitRuns = [r \in CommitRuns |-> 0]
    /\ consumed = [r \in CommitRuns |-> Unread]
    /\ genOutcome = [r \in CommitRuns |-> "none"]
    /\ sawNoChanges = [r \in CommitRuns |-> FALSE]

InitCommit == PureIdle /\ hasWorkspace \in BOOLEAN /\ FixIdle /\ CommitInit

NextCommit == \E r \in CommitRuns : CommitNext(r)

\* Invocations of the AI-commit command, overlapping as the host allows.
SpecCommit == InitCommit /\ [][NextCommit]_vars

\* The user stages a change (git add) while the runs are under way.
UserStage ==
    /\ isRepo
    /\ userStages < MaxStages
    /\ hasStaged' = TRUE
    /\ indexHasEntries' = TRUE
    /\ userStages' = userStages + 1
    /\ UNCHANGED <<xvars, purevars, fixvars, isRepo, hasUntracked, hasModified,
                   diffOutputEmpty, tmpFile, commitLog, cvars, cghost>>

NextCommitStaging == NextCommit \/ UserStage

\* The same invocations in a working copy the user goes on staging into.
SpecCommitStaging == InitCommit /\ [][NextCommitStaging]_vars

----------------------------------------------------------------------------
(* Properties of the commit flow.                                          *)

CommitRunEnded(r) == cpc[r] = "done"

\* The notification the run ended with is an error carrying message m.
EndedWithError(r, m) ==
    /\ CommitRunEnded(r)
    /\ cNotes[r] = <<Error(m)>>

\* C1: once the transient file has been written it is deleted in every run,
\* when git commit succeeds and when it fails: with no run under way, no file
\* is left behind.
C1_TransientFileDeletedInEveryRun ==
    (\A r \in CommitRuns : cpc[r] \in {"idle", "done"}) => ~tmpFile.exists

\* C6: a run that finds no staged and no untracked file, or no repository,
\* ends with the matching error and makes no completion call, writes no
\* transient file and starts no git commit.
C6_NothingStagedFailsBeforeAnyCall ==
    \A r \in CommitRuns :
        /\ (hasWorkspace /\ ~isRepo /\ cpc[r] \notin {"idle", "revparse"}) =>
              /\ EndedWithError(r, WrapStagedError(NotARepoMsg))
              /\ completions[r] = 0 /\ writes[r] = 0 /\ gitRuns[r] = 0
        /\ sawNoChanges[r] =>
              /\ \/ cpc[r] = "names"
                 \/ EndedWithError(r, WrapStagedError(NoStagedChangesMsg))
                 \/ EndedWithError(r, WrapStagedError(NoStagedFilesMsg))
              /\ completions[r] = 0 /\ writes[r] = 0 /\ gitRuns[r] = 0

\* A run has ended on the query of the staged names, in a repository whose
\* only change is an unstaged modification.
C6_Witness ==
    \E r \in CommitRuns :
        /\ sawNoChanges[r]
        /\ hasModified
        /\ EndedWithError(r, WrapStagedError(NoStagedFilesMsg))

\* C7: a run collects, generates and commits at most once each and in that
\* order, a failed step ends it, and when the completion call throws or
\* returns an empty or absent message no transient file is written and git
\* commit is not started.
C7_StepsInOrderAndFailureIsTerminal ==
    \A r \in CommitRuns :
        /\ collects[r] <= 1 /\ completions[r] <= 1
        /\ writes[r] <= 1 /\ gitRuns[r] <= 1
        /\ gitRuns[r] <= completions[r] /\ completions[r] <= collects[r]
        /\ writes[r] = gitRuns[r]
        /\ gitRuns[r] = 1 => genOutcome[r] = "message" /\ cmsg[r] # <<>>
        /\ genOutcome[r] \in {"throwError", "throwOther", "absent", "empty"} =>
              /\ CommitRunEnded(r)
              /\ Len(cNotes[r]) = 1 /\ cNotes[r][1].kind = "error"
              /\ writes[r] = 0 /\ gitRuns[r] = 0
        /\ Len(cNotes[r]) <= 1
        /\ cNotes[r] # <<>> => CommitRunEnded(r)

\* One run has ended on an empty message and another has committed.
C7_Witness ==
    \E r, q \in CommitRuns :
        /\ genOutcome[r] = "empty" /\ CommitRunEnded(r)
        /\ genOutcome[q] = "message" /\ gitRuns[q] = 1 /\ CommitRunEnded(q)
        /\ commitLog # <<>>

\* C8: the transient file a run's git commit reads holds exactly the message
\* that run generated.
C8_CommitReadsItsOwnMessage ==
    \A r \in CommitRuns :
        consumed[r].read => consumed[r].found /\ consumed[r].content = cmsg[r]

----------------------------------------------------------------------------
(* The extractor on its own: every response built of at most MaxPieces     *)
(* pieces, a piece being a fence, a backtick, a newline, a blank, a letter *)
(* or a word.                                                              *)

Pieces(w) == {Fence, <<BT>>, <<NL>>, <<SP>>, <<X>>, <<w>>}

RECURSIVE Flatten(_)
Flatten(ps) == IF ps = <<>> THEN <<>> ELSE Head(ps) \o Flatten(Tail(ps))

\* r is a response built of at most n pieces.
IsResponse(r, n) ==
    \E w \in Words : \E k \in 0..n : \E ps \in [1..k -> Pieces(w)] : r = Flatten(ps)

\* fixCodeWithAI hands the response to the extractor.
XExtract ==
    /\ xpc = "in"
    /\ xOut' = extractCodeFromResponse(xResp)
    /\ xpc' = "out"
    /\ UNCHANGED <<xResp, xOut2, purevars, fixvars, commitvars>>

\* The extractor is applied to its own output.
XExtractAgain ==
    /\ xpc = "out"
    /\ xOut2' = extractCodeFromResponse(xOut)
    /\ xpc' = "again"
    /\ UNCHANGED <<xResp, xOut, purevars, fixvars, commitvars>>

InitExtract ==
    /\ xpc = "in"
    /\ IsResponse(xResp, MaxPieces)
    /\ xOut = <<>>
    /\ xOut2 = <<>>
    /\ PIdle
    /\ KIdle
    /\ hasWorkspace = FALSE
    /\ FixIdle
    /\ CommitIdle

NextExtract == XExtract \/ XExtractAgain

SpecExtract == InitExtract /\ [][NextExtract]_vars

HasFence(s) == \E p \in 1..Len(s) : IsFenceAt(s, p)

\* C9: for a response holding a fenced block whose opening fence carries one
\* of the tags or none, the extractor returns the trimmed interior of the
\* first such block, whatever the interior, empty and blank included.
C9_ReturnsTrimmedInteriorOfFirstBlock ==
    (xpc # "in" /\ MatchStart(xResp) > 0) => xOut = Trim(MatchGroup(xResp))

\* C10: the extractor returns the whole response trimmed when the response
\* holds no fence, and applied to its own output it returns that output.
C10_FallbackAndIdempotent ==
    /\ (xpc # "in" /\ ~HasFence(xResp)) => xOut = Trim(xResp)
    /\ xpc = "again" => xOut2 = xOut

\* The extractor has run twice on a response whose block holds code between
\* white space.
C10_Witness ==
    /\ xpc = "again"
    /\ MatchStart(xResp) > 0
    /\ MatchGroup(xResp) # Trim(MatchGroup(xResp))
    /\ xOut # <<>>
    /\ xOut2 = xOut

----------------------------------------------------------------------------
(* buildFixPrompt on its own: every sequence of at most MaxDiags           *)
(* diagnostics, over a one-line and a two-line source text.                *)

PromptDiags == {D1, D2, D3}
PromptCodes == {<<X>>, <<X, NL, Y>>}

\* fixCodeWithAI builds the prompt of its request.
PBuild ==
    /\ ppc = "in"
    /\ pPrompt' = buildFixPrompt(pCode, pErrors, pPath)
    /\ ppc' = "built"
    /\ UNCHANGED <<pCode, pErrors, pPath, xvars, kvars, fixvars, commitvars>>

InitPrompt ==
    /\ ppc = "in"
    /\ pCode \in PromptCodes
    /\ \E k \in 0..MaxDiags : pErrors \in [1..k -> PromptDiags]
    /\ pPath \in {FilePath(f) : f \in Files}
    /\ pPrompt = <<>>
    /\ XIdle
    /\ KIdle
    /\ hasWorkspace = FALSE
    /\ FixIdle
    /\ CommitIdle

NextPrompt == PBuild

SpecPrompt == InitPrompt /\ [][NextPrompt]_vars

\* The lines of a text: the pieces between its newlines.
RECURSIVE SplitLines(_)
SplitLines(s) ==
    IF \A i \in 1..Len(s) : s[i] # NL THEN <<s>>
    ELSE LET i == CHOOSE j \in 1..Len(s) :
                      s[j] = NL /\ \A k \in 1..(j - 1) : s[k] # NL
         IN  <<SubSeq(s, 1, i - 1)>> \o SplitLines(SubSeq(s, i + 1, Len(s)))

\* The number a sequence of decimal digits writes; -1 when it is not one.
RECURSIVE ParseNat(_)
ParseNat(ds) ==
    IF ds = <<>> THEN -1
    ELSE LET last == ds[Len(ds)]
             d == IF \E v \in 1..10 : DigitChars[v] = last
                  THEN (CHOOSE v \in 1..10 : DigitChars[v] = last) - 1
                  ELSE -1
         IN  IF d = -1 THEN -1
             ELSE IF Len(ds) = 1 THEN d
             ELSE LET hi == ParseNat(SubSeq(ds, 1, Len(ds) - 1))
                  IN  IF hi = -1 THEN -1 ELSE 10 * hi + d

\* The lines of the prompt that stand before the fenced source text, the
\* heading line and the empty lines left out.
DiagnosticLines(prompt) ==
    LET ls == SplitLines(prompt)
        open == Fence \o <<"typescript">>
        fenceAt == CHOOSE j \in 1..Len(ls) :
                       ls[j] = open /\ \A k \in 1..(j - 1) : ls[k] # open
    IN  SelectSeq(SubSeq(ls, 2, fenceAt - 1), LAMBDA l : l # <<>>)

\* Line l reads: Error: <message of d> at line <line of d, counted from 1>.
IsLineOf(l, d) ==
    LET k == Len(d.message)
    IN  /\ Len(l) > k + 2
        /\ SubSeq(l, 1, k + 1) = <<"Error: ">> \o d.message
        /\ l[k + 2] = " at line "
        /\ ParseNat(SubSeq(l, k + 3, Len(l))) = d.line + 1

\* C11: for a non-empty sequence of diagnostics the prompt holds exactly one
\* line per diagnostic, in the order supplied, each beginning "Error: " and
\* printing the line number range.start.line + 1.
C11_OneErrorLinePerDiagnostic ==
    (ppc = "built" /\ pErrors # <<>>) =>
        LET ls == DiagnosticLines(pPrompt)
        IN  /\ Len(ls) = Len(pErrors)
            /\ \A i \in 1..Len(pErrors) : IsLineOf(ls[i], pErrors[i])

\* No message of the diagnostics holds a line break.
OneLineMessages == \A i \in 1..Len(pErrors) : \A j \in 1..Len(pErrors[i].message) :
                       pErrors[i].message[j] # NL

\* The prompt of diagnostics with one-line messages holds one line for each.
OneErrorLinePerOneLineDiagnostic ==
    (ppc = "built" /\ pErrors # <<>> /\ OneLineMessages) =>
        LET ls == DiagnosticLines(pPrompt)
        IN  /\ Len(ls) = Len(pErrors)
            /\ \A i \in 1..Len(pErrors) : IsLineOf(ls[i], pErrors[i])

----------------------------------------------------------------------------
(* The resolution of the settings on its own: every state of the user's    *)
(* file and of the environment.                                            *)

InitConfig ==
    /\ kpc = "start"
    /\ cfgFile \in ConfigFiles
    /\ env \in [EnvNames -> EnvValues]
    /\ config = NullValue
    /\ clientOptions = [baseURL |-> Absent, apiKey |-> Absent]
    /\ reqModel = Absent
    /\ kLog = <<>>
    /\ XIdle
    /\ PIdle
    /\ hasWorkspace = FALSE
    /\ FixIdle
    /\ CommitIdle

NextConfig == KLoad \/ KClient \/ KModel

SpecConfig == InitConfig /\ [][NextConfig]_vars

\* What the user's file says for a field; a file that is missing, unreadable
\* or unparsable says nothing.
FileSays(field) ==
    IF cfgFile.kind = "parsed" /\ ~cfgFile.value.isNull /\ cfgFile.value.hasOpenai
    THEN cfgFile.value.openai[field]
    ELSE Absent

\* The value the stated order yields: the file's, else the environment's,
\* else the default.
InOrder(field, envName, default) ==
    IF Truthy(FileSays(field)) THEN FileSays(field)
    ELSE IF Truthy(env[envName]) THEN env[envName]
    ELSE default

\* Two resolved values agree: the same text, or both none.
SameSetting(a, b) == (Truthy(a) \/ Truthy(b)) => a = b

\* C12 as stated: the resolution never throws, and each of apiKey, apiBase
\* and model is the value of the user's file when it has one, else the
\* environment variable, else the default (none for apiKey); a file that is
\* missing, unreadable or unparsable counts as absent.
C12_FileThenEnvThenDefault ==
    /\ kpc \in {"start", "loaded", "client", "resolved"}
    /\ kpc \in {"client", "resolved"} =>
          /\ SameSetting(clientOptions.apiKey, InOrder("apiKey", "OPENAI_API_KEY", Absent))
          /\ SameSetting(clientOptions.baseURL,
                         InOrder("apiBase", "OPENAI_API_BASE", DefaultApiBase))
    /\ kpc = "resolved" =>
          SameSetting(reqModel, InOrder("model", "OPENAI_MODEL", DefaultModel))

\* C12 as amended: the resolution never throws, a file that is missing,
\* unreadable or unparsable counts as absent (and the failure to read or
\* parse is logged), apiKey and apiBase are the file's value, else the
\* environment variable, else the default (none for apiKey), and model is
\* the file's value, else the default, whatever the environment holds.
C12_FileThenEnvAndModelFileThenDefault ==
    /\ kpc \in {"start", "loaded", "client", "resolved"}
    /\ kpc # "start" =>
          /\ cfgFile.kind # "parsed" => config = NullValue
          /\ kLog # <<>> <=> cfgFile.kind \in {"unreadable", "unparsable"}
    /\ kpc \in {"client", "resolved"} =>
          /\ SameSetting(clientOptions.apiKey, InOrder("apiKey", "OPENAI_API_KEY", Absent))
          /\ SameSetting(clientOptions.baseURL,
                         InOrder("apiBase", "OPENAI_API_BASE", DefaultApiBase))
    /\ kpc = "resolved" =>
          reqModel = IF Truthy(FileSays("model")) THEN FileSays("model") ELSE DefaultModel

\* The settings are resolved from a file that names the key alone, with the
\* base address and a model named in the environment.
C12_Witness ==
    /\ kpc = "resolved"
    /\ cfgFile.kind = "parsed"
    /\ Truthy(FileSays("apiKey")) /\ ~Truthy(FileSays("apiBase")) /\ ~Truthy(FileSays("model"))
    /\ \A n \in EnvNames : Truthy(env[n])
    /\ clientOptions = [baseURL |-> "from env", apiKey |-> "from file"]
    /\ reqModel = DefaultModel

----------------------------------------------------------------------------
(* The fix requests of the commands the host runs side by side.            *)

\* The callers whose completion call is issued and not yet settled.
InFlight == {c \in Callers : rq[c].st \in {"create", "stream"}}

\* The callers that hold a fix and have not yet applied it: the document is
\* being shown or edited.
Applying == {c \in Callers : rq[c].st = "ok"}

\* The batch run is through with file g: it had no diagnostics, its edit is
\* applied, or its failure is logged.
BatchThroughWith(g) ==
    \/ g \notin WithDiagnostics
    \/ edits[Batch][g] = 1
    \/ \E i \in 1..Len(bLog) : bLog[i].file = g

\* Within the batch run a file's completion call is issued only when the run
\* is through with every file before it.
BatchRunIsSequential ==
    \A f \in Files : calls[Batch][f] >= 1 =>
        \A g \in 1..(f - 1) : BatchThroughWith(g)

\* C13: at every moment at most one fix request is in flight and at most one
\* edit is outstanding, and the batch run issues the completion call of a
\* file only when the request of the file before it has finished.
C13_OneRequestInFlightAtATime ==
    /\ Cardinality(InFlight) <= 1
    /\ Cardinality(Applying) <= 1
    /\ BatchRunIsSequential

----------------------------------------------------------------------------
(* The response a request hands to the extractor.                          *)

\* The text of a stream: its fragments one after the other, a fragment with
\* no content counting as the empty text.
StreamText(stream) ==
    Flatten([i \in 1..Len(stream) |-> IF stream[i] = Absent THEN <<>> ELSE stream[i]])

\* The request of caller c has gone through the extractor.
Extracted(c) ==
    /\ rq[c].st \in {"ok", "err"}
    /\ outcome[c][rq[c].file] = "complete"

\* C14: the text handed to the extractor is the concatenation of all the
\* fragments the stream delivered, in the order of arrival, a fragment with
\* absent content adding nothing; and the extractor is handed the text only
\* once the stream is complete.
C14_ExtractorGetsAllFragmentsInOrder ==
    /\ [](\A c \in Callers : Extracted(c) =>
              /\ resp[c][rq[c].file] = StreamText(rq[c].stream)
              /\ rq[c].pending = <<>>)
    /\ [][\A c \in Callers : \A f \in Files :
              (resp'[c][f] # resp[c][f] \/ (outcome'[c][f] = "complete" /\ outcome[c][f] # "complete"))
                  => /\ rq[c].st = "stream" /\ rq[c].file = f
                     /\ rq[c].pending = <<>>
                     /\ resp'[c][f] = rq[c].full
                     /\ rq[c].full = StreamText(rq[c].stream)]_vars

\* The batch run holds the fix of a response that came in three fragments,
\* the second with no content.
C14_Witness ==
    /\ rq[Batch].st = "ok"
    /\ rq[Batch].stream = PlainStream
    /\ resp[Batch][rq[Batch].file] = <<X, Y, SP>>
    /\ rq[Batch].out = <<X, Y>>

----------------------------------------------------------------------------
(* The apply step.                                                         *)

\* C15: whenever a replacement is applied to a file, the file's text right
\* after it is exactly the non-empty fix extracted for that file, whole, also
\* when the text changed between the read for the prompt and the
\* replacement; no other file changes, and a file's text changes only by a
\* replacement or by the user.
C15_ApplyReplacesWholeText ==
    /\ [][\A c \in Callers : \A f \in Files :
              edits'[c][f] # edits[c][f] =>
                  /\ rq[c].st = "ok" /\ rq[c].file = f
                  /\ rq[c].out # <<>>
                  /\ rq[c].out = extractCodeFromResponse(resp[c][f])
                  /\ text'[f] = rq[c].out
                  /\ \A g \in Files \ {f} : text'[g] = text[g]]_vars
    /\ [][text' # text =>
              \/ userEdits' # userEdits
              \/ \E c \in Callers : \E f \in Files : edits'[c][f] = edits[c][f] + 1]_vars

\* A fix has replaced a text the user had changed after it was read for the
\* prompt, and the file holds the fix alone.
C15_Witness ==
    \E c \in Callers : \E f \in Files :
        /\ applied[c][f].done
        /\ applied[c][f].read = Original
        /\ applied[c][f].before = UserText
        /\ text[f] = applied[c][f].fix
        /\ text[f] = <<X>>

----------------------------------------------------------------------------
(* The notifications of fixCurrentFile and aiCommit.                       *)

FixSuccessNote == Info(<<"Code fixed successfully!">>)
CommitSuccessNote == Info(<<"Commit created">>)

\* The git commit of run r exited with status zero.
GitExitedZero(r) == \E i \in 1..Len(commitLog) : commitLog[i].run = r

\* Run s of fixCurrentFile obtained a fix and issued the replacement.
FixIssued(s) == \E f \in Files : edits[s][f] = 1

\* C16: every run of fixCurrentFile and of aiCommit ends with exactly one
\* notification and shows none before; it is the success notification
\* exactly when every step succeeded: for aiCommit when git commit exited
\* with status zero, for fixCurrentFile when a non-empty fix was obtained and
\* the replacement issued; also for runs of one command that overlap.
C16_OneNotificationAndSuccessIffAllSteps ==
    /\ \A r \in CommitRuns :
          /\ Len(cNotes[r]) = (IF cpc[r] = "done" THEN 1 ELSE 0)
          /\ cpc[r] = "done" => (cNotes[r][1] = CommitSuccessNote <=> GitExitedZero(r))
    /\ \A s \in Singles :
          /\ Len(sNotes[s]) = (IF spc[s] = "done" THEN 1 ELSE 0)
          /\ spc[s] = "done" => (sNotes[s][1] = FixSuccessNote <=> FixIssued(s))

====
